---- MODULE Spec2Model ----
(***************************************************************************)
(* RoleRunner (src/oct/prepare/role_runner.py): a session object wrapping  *)
(* an Ansible inventory, variable manager and data loader, with one        *)
(* operation, run_role, that loads a play and runs it through a            *)
(* TaskQueueManager inside try/finally.                                    *)
(*                                                                         *)
(* Python objects are modelled by identity: variable managers, loaders and *)
(* inventories are numbered, and the mutable part of each variable manager *)
(* (its bound inventory, its variables) lives in a heap indexed by the     *)
(* object's number.  The caller is single-threaded: a constructor or a     *)
(* run_role call runs to its end before the next one starts.               *)
(***************************************************************************)
EXTENDS Integers, Sequences, FiniteSets, TLC

\* ---------------------------------------------------------------- bounds
MaxCtor == 2          \* constructor calls the caller makes
MaxCalls == 2         \* run_role calls the caller makes
NumCallerVMs == 1     \* variable managers the caller creates itself

\* ------------------------------------------------------- object identities
DefaultVM == 0        \* the VariableManager() built when `def __init__` is evaluated
DefaultLoader == 0    \* the DataLoader() built when `def __init__` is evaluated
Omitted == -1         \* an argument the caller leaves out
NoInv == 0            \* a variable manager no inventory was set on
NoHandle == 0         \* tqm = None

CallerVMs == 1..NumCallerVMs
CallerLoaders == {1}     \* the data loader the caller creates itself
VMs == {DefaultVM} \cup CallerVMs

\* ------------------------------------------------------------ input sets
HostSources == {"list", "badfile"}
Roles == {"webserver", "missing"}
KnownRoles == {"webserver"}
NoVars == [given |-> FALSE, map |-> {}]
VarsChoices == {NoVars, [given |-> TRUE, map |-> {<<"port", 8080>>}]}
BackendResults == {"stats"}
BackendErrors == {"HostUnreachable", "TaskFailed"}

Options(connection, module_path, forks, become, become_method, become_user, check) ==
    [connection |-> connection, module_path |-> module_path, forks |-> forks,
     become |-> become, become_method |-> become_method,
     become_user |-> become_user, check |-> check]

DefaultOptions == Options("local", "", 5, "None", "None", "None", FALSE)

OptionChoices == {DefaultOptions}

VARIABLES
    vmInv,       \* heap: variable manager -> the inventory set on it (NoInv: none)
    vmVars,      \* heap: variable manager -> its variables, a set of <<name, value>>
    sessions,    \* the RoleRunner objects constructed so far, in order
    nextInv,     \* Inventory objects built so far
    nCtor,       \* constructor calls made so far
    lastCtor,    \* outcome of the latest constructor call
    handles,     \* the TaskQueueManager objects built so far, in order
    call,        \* the run_role call in progress (pc = "idle": none)
    nCalls,      \* run_role calls begun so far
    lastReturn   \* outcome of the latest finished run_role call

vars == <<vmInv, vmVars, sessions, nextInv, nCtor, lastCtor, handles, call, nCalls, lastReturn>>

\* --------------------------------------------------------------- __init__

\* A parameter's value: the caller's argument, or the default object of the signature.
ResolveDefault(arg, default) == IF arg = Omitted THEN default ELSE arg

\* Inventory(loader, variable_manager, host_list): a new object, or the loader's
\* failure on a host source it cannot read.
BuildInventory(n, loader, vm, host_list) ==
    IF host_list = "badfile"
    THEN [ok |-> FALSE, inv |-> n + 1, error |-> "ConfigurationError"]
    ELSE [ok |-> TRUE, inv |-> n + 1, error |-> "None"]

SetInventoryAlways(heap, vm, built) == [heap EXCEPT ![vm] = built.inv]

\* self._variable_manager.set_inventory(self._inventory), reached only when
\* Inventory(...) on the line before did not raise.
SetInventory(heap, vm, built) ==
    IF built.ok THEN [heap EXCEPT ![vm] = built.inv] ELSE heap

NewSession(vm, loader, built, opts, vmArg, loaderArg) ==
    [variable_manager |-> vm, data_loader |-> loader, inventory |-> built.inv,
     options |-> opts, passwords |-> "None",
     vmDefaulted |-> (vmArg = Omitted), loaderDefaulted |-> (loaderArg = Omitted)]

Construct(vmArg, loaderArg, host_list, opts) ==
    /\ call.pc = "idle"
    /\ nCtor < MaxCtor
    /\ LET vm == ResolveDefault(vmArg, DefaultVM)
           loader == ResolveDefault(loaderArg, DefaultLoader)
           built == BuildInventory(nextInv, loader, vm, host_list)
       IN /\ nCtor' = nCtor + 1
          /\ nextInv' = IF built.ok THEN built.inv ELSE nextInv
          /\ vmInv' = SetInventory(vmInv, vm, built)
          /\ sessions' = IF built.ok
                         THEN Append(sessions, NewSession(vm, loader, built, opts, vmArg, loaderArg))
                         ELSE sessions
          /\ lastCtor' = [status |-> IF built.ok THEN "ok" ELSE "raised",
                          error |-> built.error]
    /\ UNCHANGED <<vmVars, handles, call, nCalls, lastReturn>>

\* --------------------------------------------------------------- run_role

NoPlay == [name |-> "", hosts |-> "", gather_facts |-> "", roles |-> <<>>]

PlayRaw(name, role, rvars, hosts, gather_facts) ==
    [name |-> name, hosts |-> hosts, gather_facts |-> gather_facts,
     roles |-> <<[role |-> role, vars |-> rvars]>>]

IdleCall ==
    [pc |-> "idle", session |-> 0, play_raw |-> NoPlay, play |-> NoPlay,
     tqm |-> NoHandle, result |-> "None", pending |-> "None", runError |-> "None",
     runs |-> 0, scopeBefore |-> {}, trace |-> <<>>]

Merge(scope, overrides) ==
    {p \in scope : \A q \in overrides : q[1] /= p[1]} \cup overrides

LoadPlayWritesScope(play_raw, scope) ==
    [ok |-> play_raw.roles[1].role \in KnownRoles, play |-> play_raw,
     scope |-> Merge(scope, play_raw.roles[1].vars.map)]

\* Play().load(play_raw, variable_manager, loader): the compiled play, or the
\* failure to resolve the role; the overrides stay inside the play.
LoadPlay(play_raw, scope) ==
    [ok |-> play_raw.roles[1].role \in KnownRoles, play |-> play_raw, scope |-> scope]

NextPcNoFinally(pc, raised) ==
    CASE pc = "CONFIGURED" -> IF raised THEN "idle" ELSE "PLAN_BUILT"
      [] pc = "PLAN_BUILT" -> IF raised THEN "idle" ELSE "ENGINE_ACQUIRED"
      [] pc = "ENGINE_ACQUIRED" -> "RUNNING"
      [] pc = "RUNNING" -> IF raised THEN "idle" ELSE "COMPLETED"
      [] pc = "COMPLETED" -> "ENGINE_RELEASED"
      [] pc = "FAILED" -> "ENGINE_RELEASED"
      [] OTHER -> "idle"

\* Control flow of run_role.  Play().load stands before the try, so its failure
\* leaves at once; a failing TaskQueueManager(...) reaches the finally with
\* tqm = None, which does nothing; tqm.run's outcome, either way, goes through
\* the finally with a handle to clean up.
NextPc(pc, raised) ==
    CASE pc = "CONFIGURED" -> IF raised THEN "idle" ELSE "PLAN_BUILT"
      [] pc = "PLAN_BUILT" -> IF raised THEN "idle" ELSE "ENGINE_ACQUIRED"
      [] pc = "ENGINE_ACQUIRED" -> "RUNNING"
      [] pc = "RUNNING" -> IF raised THEN "FAILED" ELSE "COMPLETED"
      [] pc = "COMPLETED" -> "ENGINE_RELEASED"
      [] pc = "FAILED" -> "ENGINE_RELEASED"
      [] OTHER -> "idle"

\* What the function hands back when it ends without a pending exception: there
\* is no return statement after `result = tqm.run(play)`.
ReturnValue(result) == "None"

OutcomeSwallowed(c) ==
    [status |-> "returned", value |-> ReturnValue(c.result), error |-> "None",
     backendResult |-> c.result, backendError |-> c.runError,
     session |-> c.session, tqm |-> c.tqm, runs |-> c.runs,
     overrides |-> c.play_raw.roles[1].vars, scopeBefore |-> c.scopeBefore,
     trace |-> c.trace]

\* How the call ends: a pending exception propagates, otherwise the function returns.
Outcome(c) ==
    [status |-> IF c.pending /= "None" THEN "raised" ELSE "returned",
     value |-> IF c.pending /= "None" THEN "None" ELSE ReturnValue(c.result),
     error |-> c.pending,
     backendResult |-> c.result, backendError |-> c.runError,
     session |-> c.session, tqm |-> c.tqm, runs |-> c.runs,
     overrides |-> c.play_raw.roles[1].vars, scopeBefore |-> c.scopeBefore,
     trace |-> c.trace]

NoReturn ==
    [status |-> "none", value |-> "None", error |-> "None",
     backendResult |-> "None", backendError |-> "None",
     session |-> 0, tqm |-> NoHandle, runs |-> 0,
     overrides |-> NoVars, scopeBefore |-> {}, trace |-> <<>>]

\* Move the call to its next position, or end it.
Advance(c, npc) ==
    /\ call' = IF npc = "idle" THEN IdleCall
               ELSE [c EXCEPT !.pc = npc, !.trace = Append(@, npc)]
    /\ lastReturn' = IF npc = "idle" THEN Outcome(c) ELSE lastReturn

NewHandleRebuilt(id, s, sess, heap) ==
    [id |-> id, session |-> s, inventory |-> sess.inventory + id,
     variable_manager |-> sess.variable_manager, loader |-> sess.data_loader,
     options |-> sess.options, passwords |-> sess.passwords,
     boundInv |-> heap[sess.variable_manager], log |-> <<>>]

\* TaskQueueManager(inventory=self._inventory, variable_manager=..., loader=...,
\* options=..., passwords=...); boundInv is the inventory the variable manager
\* holds at that moment.
NewHandle(id, s, sess, heap) ==
    [id |-> id, session |-> s, inventory |-> sess.inventory,
     variable_manager |-> sess.variable_manager, loader |-> sess.data_loader,
     options |-> sess.options, passwords |-> sess.passwords,
     boundInv |-> heap[sess.variable_manager], log |-> <<>>]

AcquireReused(hs, h) == IF Len(hs) > 0 THEN hs ELSE Append(hs, h)

\* tqm = TaskQueueManager(...): a new object on every call.
AcquireHandle(hs, h) == Append(hs, h)

CleanupSkipped(hs, tqm) == hs

\* finally: if tqm is not None: tqm.cleanup()
Cleanup(hs, tqm) ==
    IF tqm /= NoHandle THEN [hs EXCEPT ![tqm].log = Append(@, "cleanup")] ELSE hs

\* run_role(name, role, vars, hosts, gather_facts): play_raw = dict(...)
RunRoleCall(s, name, role, rvars, hosts, gather_facts) ==
    /\ call.pc = "idle"
    /\ nCalls < MaxCalls
    /\ s \in DOMAIN sessions
    /\ nCalls' = nCalls + 1
    /\ call' = [IdleCall EXCEPT !.pc = "CONFIGURED", !.session = s,
                                !.play_raw = PlayRaw(name, role, rvars, hosts, gather_facts),
                                !.scopeBefore = vmVars[sessions[s].variable_manager],
                                !.trace = <<"CONFIGURED">>]
    /\ UNCHANGED <<vmInv, vmVars, sessions, nextInv, nCtor, lastCtor, handles, lastReturn>>

\* play = Play().load(play_raw, variable_manager=..., loader=...)
LoadPlayStep ==
    /\ call.pc = "CONFIGURED"
    /\ LET vm == sessions[call.session].variable_manager
           r == LoadPlay(call.play_raw, vmVars[vm])
       IN /\ vmVars' = [vmVars EXCEPT ![vm] = r.scope]
          /\ Advance([call EXCEPT !.play = IF r.ok THEN r.play ELSE NoPlay,
                                  !.pending = IF r.ok THEN "None" ELSE "RoleResolutionError"],
                     NextPc("CONFIGURED", ~r.ok))
    /\ UNCHANGED <<vmInv, sessions, nextInv, nCtor, lastCtor, handles, nCalls>>

\* tqm = None; try: tqm = TaskQueueManager(...)
AcquireStep ==
    /\ call.pc = "PLAN_BUILT"
    /\ \E ok \in BOOLEAN :
         LET h == NewHandle(Len(handles) + 1, call.session, sessions[call.session], vmInv)
             hs == IF ok THEN AcquireHandle(handles, h) ELSE handles
         IN /\ handles' = hs
            /\ Advance([call EXCEPT !.tqm = IF ok THEN Len(hs) ELSE NoHandle,
                                    !.pending = IF ok THEN "None" ELSE "EngineInitError"],
                       NextPc("PLAN_BUILT", ~ok))
    /\ UNCHANGED <<vmInv, vmVars, sessions, nextInv, nCtor, lastCtor, nCalls>>

\* tqm.run(play) is entered
RunStart ==
    /\ call.pc = "ENGINE_ACQUIRED"
    /\ handles' = [handles EXCEPT ![call.tqm].log = Append(@, "run")]
    /\ Advance([call EXCEPT !.runs = @ + 1], NextPc("ENGINE_ACQUIRED", FALSE))
    /\ UNCHANGED <<vmInv, vmVars, sessions, nextInv, nCtor, lastCtor, nCalls>>

\* result = tqm.run(play): the backend's result, or the backend's failure
RunEnd ==
    /\ call.pc = "RUNNING"
    /\ \/ \E r \in BackendResults :
            Advance([call EXCEPT !.result = r], NextPc("RUNNING", FALSE))
       \/ \E e \in BackendErrors :
            Advance([call EXCEPT !.pending = e, !.runError = e], NextPc("RUNNING", TRUE))
    /\ UNCHANGED <<vmInv, vmVars, sessions, nextInv, nCtor, lastCtor, handles, nCalls>>

\* finally: if tqm is not None: tqm.cleanup()
Release ==
    /\ call.pc \in {"COMPLETED", "FAILED"}
    /\ handles' = Cleanup(handles, call.tqm)
    /\ Advance(call, NextPc(call.pc, call.pending /= "None"))
    /\ UNCHANGED <<vmInv, vmVars, sessions, nextInv, nCtor, lastCtor, nCalls>>

\* the function ends: the pending exception propagates, or it returns
Exit ==
    /\ call.pc = "ENGINE_RELEASED"
    /\ Advance(call, NextPc("ENGINE_RELEASED", call.pending /= "None"))
    /\ UNCHANGED <<vmInv, vmVars, sessions, nextInv, nCtor, lastCtor, handles, nCalls>>

\* ---------------------------------------------------------- specification

Init ==
    /\ vmInv = [v \in VMs |-> NoInv]
    /\ vmVars = [v \in VMs |-> IF v = DefaultVM THEN {} ELSE {<<"port", 80>>}]
    /\ sessions = <<>>
    /\ nextInv = 0
    /\ nCtor = 0
    /\ lastCtor = [status |-> "none", error |-> "None"]
    /\ handles = <<>>
    /\ call = IdleCall
    /\ nCalls = 0
    /\ lastReturn = NoReturn

Next ==
    \/ \E vmArg \in {Omitted} \cup CallerVMs, loaderArg \in {Omitted} \cup CallerLoaders,
          host_list \in HostSources, opts \in OptionChoices :
         Construct(vmArg, loaderArg, host_list, opts)
    \/ \E s \in DOMAIN sessions, role \in Roles, rvars \in VarsChoices :
         RunRoleCall(s, "deploy", role, rvars, "all", "yes")
    \/ LoadPlayStep
    \/ AcquireStep
    \/ RunStart
    \/ RunEnd
    \/ Release
    \/ Exit

Spec == Init /\ [][Next]_vars

\* ------------------------------------------------------------ properties

CountOf(log, e) == Cardinality({j \in DOMAIN log : log[j] = e})

LogEvents == UNION {{<<i, j>> : j \in DOMAIN handles[i].log} : i \in DOMAIN handles}

Acquisitions == Len(handles)

Releases == Cardinality({p \in LogEvents : handles[p[1]].log[p[2]] = "cleanup"})

InCall == call.pc /= "idle"

Returned == lastReturn.status /= "none"

ScopeOf(s) == vmVars[sessions[s].variable_manager]

FullTraces ==
    {<<"CONFIGURED", "PLAN_BUILT", "ENGINE_ACQUIRED", "RUNNING", "COMPLETED", "ENGINE_RELEASED">>,
     <<"CONFIGURED", "PLAN_BUILT", "ENGINE_ACQUIRED", "RUNNING", "FAILED", "ENGINE_RELEASED">>}

EarlyTraces == {<<"CONFIGURED">>, <<"CONFIGURED", "PLAN_BUILT">>}

IsPrefix(a, b) == Len(a) <= Len(b) /\ \A k \in DOMAIN a : a[k] = b[k]

\* C1: the handle a run_role call acquires is released exactly once before the
\* call returns or propagates, whether tqm.run succeeded or raised; so whenever
\* no call is in progress, as many handles were released as were acquired.
C1_ReleasedExactlyOnce ==
    /\ Releases <= Acquisitions
    /\ \A i \in DOMAIN handles : CountOf(handles[i].log, "cleanup") <= 1
    /\ ~InCall => Acquisitions = Releases
    /\ (Returned /\ lastReturn.tqm /= NoHandle) =>
          CountOf(handles[lastReturn.tqm].log, "cleanup") = 1

\* C1 witness: two calls have ended, each with its own handle, the latest one
\* after the backend raised.
C1_Witness ==
    /\ ~InCall
    /\ Len(handles) = 2
    /\ lastReturn.backendError /= "None"

\* C2: when tqm.run completes without raising, run_role returns to its caller
\* the very result value tqm.run produced.
C2_ReturnsBackendResult ==
    (lastReturn.status = "returned") => (lastReturn.value = lastReturn.backendResult)

\* C3 (as stated): every run_role call goes through CONFIGURED, PLAN_BUILT,
\* ENGINE_ACQUIRED, RUNNING, COMPLETED or FAILED and terminates in
\* ENGINE_RELEASED, on every exit path, plan compilation raising included.
C3_AlwaysEndsReleased ==
    Returned => lastReturn.trace \in FullTraces

\* C3 (amended): a call that acquired a handle goes through the six states in
\* order and terminates in ENGINE_RELEASED with the handle cleaned up, whether
\* the run completed or failed; a call whose Play().load or whose
\* TaskQueueManager(...) raises terminates earlier, in CONFIGURED or
\* PLAN_BUILT, propagating the failure with no handle acquired.
C3_EndsReleasedOnceAcquired ==
    /\ InCall => /\ \E t \in FullTraces : IsPrefix(call.trace, t)
                 /\ call.trace[Len(call.trace)] = call.pc
                 /\ (call.pc = "ENGINE_RELEASED") =>
                       CountOf(handles[call.tqm].log, "cleanup") = 1
    /\ Returned => /\ lastReturn.trace \in FullTraces \cup EarlyTraces
                   /\ (lastReturn.tqm /= NoHandle) <=> (lastReturn.trace \in FullTraces)
                   /\ (lastReturn.trace \in EarlyTraces) => (lastReturn.status = "raised")

\* C3 witness: a call whose run failed has ended, in ENGINE_RELEASED.
C3_Witness ==
    /\ lastReturn.status = "raised"
    /\ lastReturn.trace =
         <<"CONFIGURED", "PLAN_BUILT", "ENGINE_ACQUIRED", "RUNNING", "FAILED", "ENGINE_RELEASED">>

\* C4: during and after a run_role call with a non-empty vars override, the
\* variables of the session's variable manager are what they were when the
\* call began: the override lives in the play only.
C4_OverrideIsolation ==
    /\ (InCall /\ call.play_raw.roles[1].vars.given) =>
          ScopeOf(call.session) = call.scopeBefore
    /\ (Returned /\ lastReturn.overrides.given) =>
          ScopeOf(lastReturn.session) = lastReturn.scopeBefore

\* C4 witness: a call with the override port=8080 has run to its return on a
\* session whose scope holds port=80.
C4_Witness ==
    /\ lastReturn.status = "returned"
    /\ lastReturn.overrides.map = {<<"port", 8080>>}
    /\ lastReturn.scopeBefore = {<<"port", 80>>}

\* C5: when tqm.run raises, run_role propagates that same failure, after the
\* handle was cleaned up, and tqm.run was invoked once only in the call.
C5_RunFailurePropagates ==
    /\ call.runs <= 1
    /\ (InCall /\ call.runError /= "None") => call.pending = call.runError
    /\ (Returned /\ lastReturn.backendError /= "None") =>
          /\ lastReturn.status = "raised"
          /\ lastReturn.error = lastReturn.backendError
          /\ lastReturn.runs = 1
          /\ handles[lastReturn.tqm].log = <<"run", "cleanup">>

\* C5 witness: a call in which the backend raised TaskFailed has ended.
C5_Witness ==
    /\ Returned
    /\ lastReturn.backendError = "TaskFailed"

\* C6: two sessions constructed without a variable manager hold distinct
\* variable managers, and two constructed without a loader hold distinct loaders.
C6_DefaultsAreFresh ==
    \A i, j \in DOMAIN sessions :
        i /= j =>
            /\ (sessions[i].vmDefaulted /\ sessions[j].vmDefaulted) =>
                  sessions[i].variable_manager /= sessions[j].variable_manager
            /\ (sessions[i].loaderDefaulted /\ sessions[j].loaderDefaulted) =>
                  sessions[i].data_loader /= sessions[j].data_loader

HandlesUseSessionObjects ==
    /\ \A i, j \in DOMAIN sessions : i /= j => sessions[i].inventory /= sessions[j].inventory
    /\ \A i \in DOMAIN handles :
          /\ handles[i].inventory = sessions[handles[i].session].inventory
          /\ handles[i].variable_manager = sessions[handles[i].session].variable_manager
    /\ \A i, j \in DOMAIN handles :
          handles[i].session = handles[j].session => handles[i].inventory = handles[j].inventory

SessionsFixed ==
    \A s \in DOMAIN sessions : s \in DOMAIN sessions' /\ sessions'[s] = sessions[s]

\* C7: a session's inventory and variable manager are those its construction
\* set, no step changes them, each session has an inventory of its own, and
\* every handle of a session is given that same inventory.
C7_OneInventoryPerSession == []HandlesUseSessionObjects /\ [][SessionsFixed]_vars

\* C7 witness: two calls on the same session have each acquired a handle.
C7_Witness ==
    /\ ~InCall
    /\ Len(handles) = 2
    /\ handles[1].session = handles[2].session

FailedCtorStep == nCtor' = nCtor + 1 /\ lastCtor'.status = "raised"

\* C8: a constructor call in which Inventory(...) raises yields no session and
\* sets no inventory on any variable manager; run_role calls are made on
\* constructed sessions only.
C8_FailedConstruction ==
    /\ [][FailedCtorStep => (sessions' = sessions /\ vmInv' = vmInv /\ nextInv' = nextInv)]_vars
    /\ [](InCall => call.session \in DOMAIN sessions)
    /\ [](\A i \in DOMAIN handles : handles[i].session \in DOMAIN sessions)

\* C8 witness: a constructor call has raised, and no variable manager has an
\* inventory set.
C8_Witness ==
    /\ lastCtor.status = "raised"
    /\ lastCtor.error = "ConfigurationError"
    /\ sessions = <<>>
    /\ \A v \in VMs : vmInv[v] = NoInv

\* C9: every call that acquires a handle acquires a new one, not the one of an
\* earlier call; a handle runs at most one play and never after its cleanup;
\* when no call is in progress every handle has been cleaned up.
C9_HandlePerCall ==
    /\ \A i \in DOMAIN handles :
          /\ handles[i].id = i
          /\ CountOf(handles[i].log, "run") <= 1
          /\ \A j, k \in DOMAIN handles[i].log :
                (j < k) => ~(handles[i].log[j] = "cleanup" /\ handles[i].log[k] = "run")
    /\ (InCall /\ call.tqm /= NoHandle) =>
          /\ call.tqm = Len(handles)
          /\ call.tqm /= lastReturn.tqm
    /\ ~InCall => \A i \in DOMAIN handles : CountOf(handles[i].log, "cleanup") >= 1

\* C9 witness: a second call is running its play on a second handle while the
\* first call's handle is cleaned up.
C9_Witness ==
    /\ call.pc = "RUNNING"
    /\ call.tqm = 2
    /\ lastReturn.tqm = 1
    /\ handles[1].log = <<"run", "cleanup">>

\* C10: whenever a call acquires a handle, the variable manager handed to it
\* has an inventory set, and it is the inventory handed to the same handle;
\* stated for the sessions constructed without a variable manager.
C10_ScopeBoundToOwnInventory ==
    \A i \in DOMAIN handles :
        sessions[handles[i].session].vmDefaulted =>
            /\ handles[i].boundInv /= NoInv
            /\ handles[i].boundInv = handles[i].inventory

====
